---- MODULE Spec2Model ----
(***************************************************************************)
(* A model of tint.tracks.Cell_tracks.get_tracks (the scan-sequence        *)
(* orchestrator) and of the flow estimator it calls                        *)
(* (tint.phase_correlation).                                               *)
(*                                                                         *)
(* One Cell_tracks instance (tobj) receives a bounded number of            *)
(* get_tracks calls.  The argument `grids` is a lazy iterator: every       *)
(* next(grids) either yields a grid or raises StopIteration, so the model  *)
(* suspends a call exactly at its pull points (tracks.py lines 221, 227)   *)
(* and lets the environment choose what the pull returns.                  *)
(*                                                                         *)
(* Python values: None is the empty tuple, a present value x is <<x>>; a   *)
(* local name that is not bound yet is None as well (the model raises      *)
(* UnboundLocalError where the code reads it).                             *)
(***************************************************************************)
EXTENDS Integers, Sequences, FiniteSets, TLC

VARIABLES tobj, loc, pc, err, log, calls, flow

vars == <<tobj, loc, pc, err, log, calls, flow>>

\* ------------------------------------------------------------------ bounds
MaxScans == 3      \* grids one call's iterator yields before it is exhausted
MaxCalls == 2      \* get_tracks calls made on the instance
MaxDim == 3        \* rows and columns of a surface handed to fft_shift

\* --------------------------------------------------------- program constants
HighSignal == 30           \* np.max(raw1) > 30
GapSeconds == 1700         \* record.interval.seconds > 1700
DaySeconds == 86400        \* timedelta.seconds is the remainder below one day
FieldThresh == 32          \* FIELD_THRESH: objects are pixels above it

None == <<>>
Some(x) == <<x>>
Val(o) == o[1]

\* ------------------------------------------------------------------- inputs
\* Maxima of the raw field of a scan: all zero, weak signal, strong signal.
RawLevels == {0, 20, 50}
\* Seconds between consecutive grids of the stream: at the gap threshold, just
\* above it, and one day and ten minutes.
Gaps == {1700, 1701, 87000}
\* A grid: its timestamp (seconds), the maximum of its raw field and the number
\* of objects in its detection frame (np.max of a labelled frame).  A frame
\* holds an object only where the field exceeds FIELD_THRESH.
GridKinds == {k \in [rawmax : RawLevels, nobj : 0..1] :
                  k.nobj > 0 => k.rawmax > FieldThresh}
MkGrid(t, k) == [time |-> t, rawmax |-> k.rawmax, nobj |-> k.nobj]

\* ------------------------------------------------------------ helpers.Record
\* Record(grid_obj): no scan processed yet.
NewRecord == [scan |-> -1, time |-> None, interval |-> None]

\* Record.update_scan_and_time(grid_obj1, grid_obj2=None): one more scan; the
\* interval is set only when a successor grid is given.
update_scan_and_time(rec, g1, g2) ==
    [rec EXCEPT !.scan = @ + 1,
                !.time = Some(g1.time),
                !.interval = IF g2 = None THEN @ ELSE Some(Val(g2).time - g1.time)]

\* timedelta.seconds: the seconds component, days excluded.
seconds(dt) == dt % DaySeconds

\* timedelta.total_seconds()
total_seconds(dt) == dt

\* ----------------------------------------------------------- helpers.Counter
NewCounter == 0

\* Counter.next_uid(count): the uids issued and the counter afterwards.
next_uid(c, count) == [uids |-> [i \in 1..count |-> c + i], counter |-> c + count]

\* ------------------------------------------------- grid_utils.extract_grid_data
extract_grid_data(g) == [raw |-> g.rawmax, frame |-> g.nobj]

\* ----------------------------------------------------------------- DataFrame
\* DataFrame.drop(label): KeyError when no row carries the label, else a NEW
\* frame without those rows (the receiver is left as it was).
drop(tracks, label) ==
    IF \A r \in tracks : r.scan # label
    THEN [exc |-> "KeyError", value |-> tracks]
    ELSE [exc |-> "none", value |-> {r \in tracks : r.scan # label}]

\* np.stack(list): ValueError on an empty list.
np_stack(lst) == IF lst = <<>> THEN "ValueError" ELSE "none"

\* -------------------------------------------------------- phase_correlation
\* def get_global_shift(im1, im2), applied to the tuple of positional
\* arguments of a call: a call with another number of arguments is a TypeError.
get_global_shift(args) ==
    IF Len(args) # 2 THEN [exc |-> "TypeError", value |-> None]
    ELSE IF args[2] = None THEN [exc |-> "none", value |-> None]
    ELSE [exc |-> "none", value |-> Some("shift")]

\* ------------------------------------------------------------------ ndarray
\* the indices of an axis of length n, from 0 as in the source
Ix(n) == 0..(n - 1)

\* A 2-D array: its shape and its entries f, a function of (row, column).
\* (Joining f with the empty function makes the entries values, computed once.)
Arr(r, c, f) == [rows |-> r, cols |-> c, at |-> f @@ <<>>]

Min(a, b) == IF a < b THEN a ELSE b
Max(a, b) == IF a > b THEN a ELSE b

\* A[r0:r1, c0:c1] with non-negative bounds: a bound past the end is the end,
\* and a start at or past the stop gives an empty axis.
Slice(A, r0, r1, c0, c1) ==
    LET rlo == Min(r0, A.rows)
        clo == Min(c0, A.cols)
        r == Max(Min(r1, A.rows) - rlo, 0)
        c == Max(Min(c1, A.cols) - clo, 0)
    IN  Arr(r, c, [i \in Ix(r), j \in Ix(c) |-> A.at[<<rlo + i, clo + j>>]])

\* np.concatenate((A, B), axis=0): B below A.
Concat0(A, B) ==
    Arr(A.rows + B.rows, A.cols,
        [i \in Ix(A.rows + B.rows), j \in Ix(A.cols) |->
            IF i < A.rows THEN A.at[<<i, j>>] ELSE B.at[<<i - A.rows, j>>]])

\* np.concatenate((A, B), axis=1): B to the right of A.
Concat1(A, B) ==
    Arr(A.rows, A.cols + B.cols,
        [i \in Ix(A.rows), j \in Ix(A.cols + B.cols) |->
            IF j < A.cols THEN A.at[<<i, j>>] ELSE B.at[<<i, j - A.cols>>]])

Entries(A) == {A.at[p] : p \in DOMAIN A.at}

\* np.max(A) of an array with at least one entry
np_max(A) == CHOOSE v \in Entries(A) : \A w \in Entries(A) : w <= v

RECURSIVE SumOver(_, _)
SumOver(f, S) ==
    IF S = {} THEN 0
    ELSE LET p == CHOOSE q \in S : TRUE IN f[p] + SumOver(f, S \ {p})

\* fft_shift with the two column blocks joined in the other order: the pivot
\* block first.
fft_shift_TopFirst(fft_mat, rd, cd) ==
    LET quad1 == Slice(fft_mat, 0, rd, 0, cd)
        quad2 == Slice(fft_mat, 0, rd, cd, fft_mat.cols)
        quad3 == Slice(fft_mat, rd, fft_mat.rows, cd, fft_mat.cols)
        quad4 == Slice(fft_mat, rd, fft_mat.rows, 0, cd)
        centered_t == Concat0(quad4, quad1)
        centered_b == Concat0(quad3, quad2)
    IN  Concat1(centered_t, centered_b)

\* fft_shift (lines 77-89) of an ndarray; every caller passes one.
fft_shift(fft_mat, rd, cd) ==
    LET quad1 == Slice(fft_mat, 0, rd, 0, cd)
        quad2 == Slice(fft_mat, 0, rd, cd, fft_mat.cols)
        quad3 == Slice(fft_mat, rd, fft_mat.rows, cd, fft_mat.cols)
        quad4 == Slice(fft_mat, rd, fft_mat.rows, 0, cd)
        centered_t == Concat0(quad4, quad1)
        centered_b == Concat0(quad3, quad2)
    IN  Concat1(centered_b, centered_t)

\* ------------------------------------------------- numpy.fft, scipy.ndimage
\* Axis lengths whose roots of unity are 1 and -1: on them the transforms are
\* integer arithmetic, exact in floating point as well.
ExactDims == {1, 2}

\* the transform kernel exp(-2 pi i (i k / rows + j l / cols)) on ExactDims
Twiddle(i, k, j, l) == IF (i * k + j * l) % 2 = 0 THEN 1 ELSE -1

\* np.fft.fft2(A); real on ExactDims, so np.conj leaves it as it is
fft2(A) ==
    Arr(A.rows, A.cols,
        [k \in Ix(A.rows), l \in Ix(A.cols) |->
            SumOver([p \in DOMAIN A.at |-> A.at[p] * Twiddle(p[1], k, p[2], l)],
                    DOMAIN A.at)])

\* np.real(np.fft.ifft2(A)), kept multiplied by rows * cols (a positive
\* factor common to all entries)
ifft2(A) == fft2(A)

Abs(x) == IF x < 0 THEN -x ELSE x

\* fft_crosscov (lines 65-74)
fft_crosscov(im1, im2, rd, cd) ==
    LET fft1_conj == fft2(im1)
        fft2_ == fft2(im2)
        prod == Arr(im1.rows, im1.cols,
                    [k \in Ix(im1.rows), l \in Ix(im1.cols) |->
                        fft2_.at[<<k, l>>] * fft1_conj.at[<<k, l>>]])
        normalize == Arr(im1.rows, im1.cols,
                         [k \in Ix(im1.rows), l \in Ix(im1.cols) |->
                             IF prod.at[<<k, l>>] = 0 THEN 1 ELSE Abs(prod.at[<<k, l>>])])
        cross_power_spectrum ==
            Arr(im1.rows, im1.cols,
                [k \in Ix(im1.rows), l \in Ix(im1.cols) |->
                    prod.at[<<k, l>>] \div normalize.at[<<k, l>>]])
    IN  fft_shift(ifft2(cross_power_spectrum), rd, cd)

\* Weight of the centre tap of the Gaussian kernel against its two neighbours
\* for sigma = 2/8 (exp(8), rounded); the kernel reaches one sample each way
\* (radius int(4 sigma + 0.5) = 1 for sigma 1/8 and 2/8).  For sigma = 1/8 the
\* centre is heavier still, which orders the smoothed entries the same way.
GaussCentre == 2981

\* mode 'reflect': the sample an index outside 0..n-1 stands for
Reflect(k, n) == IF k < 0 THEN -k - 1 ELSE IF k >= n THEN 2 * n - 1 - k ELSE k

\* ndimage.gaussian_filter(A, sigma): one pass along the rows' axis, one along
\* the columns' axis, weights not normalized (a positive common factor)
gaussian_filter(A) ==
    LET pass0 == Arr(A.rows, A.cols,
                     [i \in Ix(A.rows), j \in Ix(A.cols) |-> GaussCentre * A.at[<<i, j>>]
                                   + A.at[<<Reflect(i - 1, A.rows), j>>]
                                   + A.at[<<Reflect(i + 1, A.rows), j>>]])
    IN  Arr(A.rows, A.cols,
            [i \in Ix(A.rows), j \in Ix(A.cols) |-> GaussCentre * pass0.at[<<i, j>>]
                          + pass0.at[<<i, Reflect(j - 1, A.cols)>>]
                          + pass0.at[<<i, Reflect(j + 1, A.cols)>>]])

\* np.argwhere(A == np.max(A))[0]: the first maximum in row-major order
argmax_first(A) ==
    LET peaks == {p \in DOMAIN A.at : A.at[p] = np_max(A)}
    IN  CHOOSE p \in peaks :
            \A q \in peaks : p[1] < q[1] \/ (p[1] = q[1] /\ p[2] <= q[2])

\* What pdb.set_trace() (line 50) comes to: the debugger is told to continue,
\* or it is quit or finds its input closed and raises BdbQuit.
Debugger == {"continue", "quit"}

\* Peak extraction with the pivot itself taken off the peak's index.
peak_shift_PivotOffset(cov_smooth, rd, cd) ==
    LET pshift == argmax_first(cov_smooth)
    IN  <<pshift[1] - rd, pshift[2] - cd>>

\* lines 57-61: the first maximum of the surface, less dims - [rd, cd]
peak_shift(cov_smooth, rd, cd) ==
    LET pshift == argmax_first(cov_smooth)
    IN  <<pshift[1] - (cov_smooth.rows - rd), pshift[2] - (cov_smooth.cols - cd)>>

\* lines 52-53, 57-61 and the swap of line 74 on a cross-covariance surface
\* as line 72 computes it, the smoothing of lines 55-56 left aside
swapped_peak_shift(crosscov) ==
    LET rd == (crosscov.rows + 1) \div 2
        cd == (crosscov.cols + 1) \div 2
    IN  peak_shift(fft_shift(crosscov, rd, cd), rd, cd)

\* fft_flowvectors (lines 44-62); dbg is what happens at line 50.
fft_flowvectors(im1, im2, global_shift, dbg) ==
    IF ~global_shift /\ (Entries(im1) = {} \/ Entries(im2) = {})
    THEN [exc |-> "ValueError", value |-> None]
    ELSE IF ~global_shift /\ (np_max(im1) = 0 \/ np_max(im2) = 0)
    THEN [exc |-> "none", value |-> None]
    ELSE IF dbg = "quit" THEN [exc |-> "BdbQuit", value |-> None]
    ELSE LET rd == (im1.rows + 1) \div 2
             cd == (im1.cols + 1) \div 2
             crosscov == fft_crosscov(im1, im2, rd, cd)
             cov_smooth == gaussian_filter(crosscov)
         IN  [exc |-> "none", value |-> Some(peak_shift(cov_smooth, rd, cd))]

\* get_global_shift (lines 95-101) on fields; im2 is None or a field.
global_shift_of(im1, im2, dbg) ==
    IF im2 = None THEN [exc |-> "none", value |-> None]
    ELSE fft_flowvectors(im1, Val(im2), TRUE, dbg)

\* np.int of the quotient n / d, d > 0: the fraction is dropped
np_int(n, d) == IF n >= 0 THEN n \div d ELSE -((-n) \div d)

\* get_ambient_flow, lines 18-34: the window bounds after clipping.  The
\* margin is FLOW_MARGIN / grid_size, a fraction.
flow_region_bounds(obj_extent, dims, params, grid_size) ==
    LET c == obj_extent.obj_center
        r == obj_extent.obj_radius
        row_lb == np_int((c[1] - r) * grid_size[2] - params.FLOW_MARGIN, grid_size[2])
        row_ub == np_int((c[1] + r) * grid_size[2] + params.FLOW_MARGIN, grid_size[2])
        col_lb == np_int((c[2] - r) * grid_size[3] - params.FLOW_MARGIN, grid_size[3])
        col_ub == np_int((c[2] + r) * grid_size[3] + params.FLOW_MARGIN, grid_size[3])
    IN  [row_lb |-> Max(row_lb, 0), row_ub |-> Min(row_ub, dims[1]),
         col_lb |-> Max(col_lb, 0), col_ub |-> Max(col_ub, dims[2])]

\* flow_region[flow_region != 0] = 1
Binarize(A) ==
    Arr(A.rows, A.cols,
        [i \in Ix(A.rows), j \in Ix(A.cols) |-> IF A.at[<<i, j>>] # 0 THEN 1 ELSE 0])

\* get_ambient_flow (lines 14-41)
get_ambient_flow(obj_extent, img1, img2, params, grid_size, dbg) ==
    LET b == flow_region_bounds(obj_extent, <<img1.rows, img1.cols>>, params, grid_size)
        flow_region1 == Slice(img1, b.row_lb, b.row_ub + 1, b.col_lb, b.col_ub + 1)
        flow_region2 == Slice(img2, b.row_lb, b.row_ub + 1, b.col_lb, b.col_ub + 1)
    IN  fft_flowvectors(Binarize(flow_region1), Binarize(flow_region2), FALSE, dbg)

\* ----------------------------------------------------------- Cell_tracks
\* Cell_tracks.__init__
NewTracks ==
    [grid_size |-> None, last_grid |-> None, counter |-> None, record |-> None,
     current_objects |-> None, tracks |-> {},
     saved_record |-> None, saved_counter |-> None, saved_objects |-> None,
     aliased |-> FALSE]

\* Cell_tracks.__save: deep copies, so the snapshot shares nothing with the
\* live objects.
save(t) ==
    [t EXCEPT !.saved_record = t.record, !.saved_counter = t.counter,
              !.saved_objects = t.current_objects, !.aliased = FALSE]

\* Cell_tracks.__load: the live names are bound to the saved objects
\* themselves, so live and saved are the same objects from here on.
load(t) ==
    [t EXCEPT !.record = t.saved_record, !.counter = t.saved_counter,
              !.current_objects = t.saved_objects, !.aliased = TRUE]

\* An in-place change of the live Record (self.record.update_scan_and_time):
\* it shows in the saved Record too while the two are one object.
MutateRecord(t, rec) ==
    [t EXCEPT !.record = Some(rec),
              !.saved_record = IF t.aliased THEN Some(rec) ELSE @]

\* An in-place change of the live Counter (counter.next_uid).
MutateCounter(t, c) ==
    [t EXCEPT !.counter = Some(c),
              !.saved_counter = IF t.aliased THEN Some(c) ELSE @]

\* ------------------------------------------------ matching / objects modules
\* get_pairs: for each object of frame1 the object of frame2 it continues as,
\* 0 when it has no successor.
get_pairs(frame1, frame2) == [i \in 1..frame1 |-> IF i <= frame2 THEN i ELSE 0]

\* init_current_objects: every object of frame1 gets a uid minted now.
init_current_objects(frame1, pairs, counter) ==
    LET n == next_uid(counter, frame1)
    IN  [objects |-> [uid |-> n.uids, id2 |-> pairs], counter |-> n.counter]

\* update_current_objects: an object of frame1 that a registered object was
\* paired with keeps that uid, any other object gets a uid minted now.
RECURSIVE update_uids(_, _, _, _, _)
update_uids(obj, frame1, old, uid, counter) ==
    IF obj > frame1 THEN [uid |-> uid, counter |-> counter]
    ELSE IF \E j \in DOMAIN old.id2 : old.id2[j] = obj
         THEN LET j == CHOOSE k \in DOMAIN old.id2 : old.id2[k] = obj
              IN  update_uids(obj + 1, frame1, old, Append(uid, old.uid[j]), counter)
         ELSE LET n == next_uid(counter, 1)
              IN  update_uids(obj + 1, frame1, old, Append(uid, n.uids[1]), n.counter)

\* the uids of the registered objects that have no successor (their
\* accumulation rasters are finalized)
finalized_uids(old) == SelectSeq(old.uid, LAMBDA u :
                          \E j \in DOMAIN old.id2 : old.uid[j] = u /\ old.id2[j] = 0)

update_current_objects(frame1, pairs, old, counter, acc_rain_list, rain) ==
    LET n == update_uids(1, frame1, old, <<>>, counter)
    IN  [objects |-> [uid |-> n.uid, id2 |-> pairs], counter |-> n.counter,
         acc_rain_list |-> IF rain THEN acc_rain_list \o finalized_uids(old)
                           ELSE acc_rain_list]

\* write_tracks: one row per object of the registry, tagged with the scan index.
write_tracks(tracks, rec, objects) ==
    tracks \cup {[scan |-> rec.scan, uid |-> objects.uid[i]] : i \in DOMAIN objects.uid}

\* post_tracks and get_system_tracks: passes that keep the (scan, uid) tags.
post_tracks(t) == t
get_system_tracks(t) == t

\* ------------------------------------------------------ Cell_tracks.get_tracks
\* The operators below take and return the state of the program as one record
\* m = [tobj, loc, pc, err, log]: the instance, the locals of the running
\* call, where the call is suspended, the exception that ended the last call
\* ("none" if none) and the lines printed so far.
\*   pc = "idle"    no call is running
\*   pc = "pull"    suspended in next(grids) of line 221
\*   pc = "repull"  suspended in next(grids) of line 227 (artifact-skip loop)
\*   pc = "post"    the scan loop has ended (line 305)

NaN == -1          \* frame0 = np.nan: no frame before frame1

NoLocals ==
    [grid_obj1 |-> None, grid_obj2 |-> None, newRain |-> FALSE, frame0 |-> None,
     raw1 |-> None, raw2 |-> None, frame1 |-> None, frame2 |-> None,
     obj_merge |-> None, acc_rain_list |-> <<>>, rain |-> FALSE, save_rain |-> FALSE]

\* an exception leaves get_tracks
Raise(m, e) == [m EXCEPT !.pc = "idle", !.err = e]

Notice(m, msg, n) == [m EXCEPT !.log = Append(@, [msg |-> msg, n |-> n])]

\* The loop head with the previous frame always copied to frame0, fresh
\* object set or not.
LoopHead_KeepsFrame0(m) ==
    LET l == m.loc
    IN  IF l.grid_obj2 = None THEN [m EXCEPT !.pc = "post"]
        ELSE [m EXCEPT !.pc = "pull",
                       !.loc = [l EXCEPT !.grid_obj1 = l.grid_obj2,
                                         !.frame0 = IF l.frame1 = None THEN Some(NaN)
                                                    ELSE l.frame1,
                                         !.raw1 = l.raw2,
                                         !.frame1 = l.frame2]]

\* lines 206-217: the loop test and the hand-over of the current scan's
\* products to the previous scan's names.
LoopHead(m) ==
    LET l == m.loc
    IN  IF l.grid_obj2 = None THEN [m EXCEPT !.pc = "post"]
        ELSE IF ~l.newRain /\ l.frame1 = None THEN Raise(m, "UnboundLocalError")
        ELSE [m EXCEPT !.pc = "pull",
                       !.loc = [l EXCEPT !.grid_obj1 = l.grid_obj2,
                                         !.frame0 = IF ~l.newRain THEN l.frame1
                                                    ELSE Some(NaN),
                                         !.raw1 = l.raw2,
                                         !.frame1 = l.frame2]]

\* The successor branch with the checkpoint taken in it as well: what lines
\* 235-252 would be if __save ran in every iteration.
WithSuccessor_Saves(m) ==
    LET l == m.loc
        x == extract_grid_data(Val(l.grid_obj2))
        t0 == save(m.tobj)
        rec == update_scan_and_time(Val(t0.record), Val(l.grid_obj1), l.grid_obj2)
        t == MutateRecord(t0, rec)
        m1 == [m EXCEPT !.tobj = t,
                        !.loc = [l EXCEPT !.raw2 = Some(x.raw), !.frame2 = Some(x.frame)]]
    IN  IF rec.interval # None /\ seconds(Val(rec.interval)) > GapSeconds
        THEN [Notice(m1, "Time discontinuity", Val(rec.time))
                 EXCEPT !.loc.newRain = TRUE, !.tobj.current_objects = None]
        ELSE m1

\* lines 235-252: a successor grid exists.
WithSuccessor(m) ==
    LET l == m.loc
        x == extract_grid_data(Val(l.grid_obj2))
        rec == update_scan_and_time(Val(m.tobj.record), Val(l.grid_obj1), l.grid_obj2)
        t == MutateRecord(m.tobj, rec)
        m1 == [m EXCEPT !.tobj = t,
                        !.loc = [l EXCEPT !.raw2 = Some(x.raw), !.frame2 = Some(x.frame)]]
    IN  IF rec.interval # None /\ seconds(Val(rec.interval)) > GapSeconds
        THEN [Notice(m1, "Time discontinuity", Val(rec.time))
                 EXCEPT !.loc.newRain = TRUE, !.tobj.current_objects = None]
        ELSE m1

\* The terminal branch without its Record update.
Terminal_NoUpdate(m) ==
    LET l == m.loc
        t == save(m.tobj)
    IN  [m EXCEPT !.tobj = [t EXCEPT !.last_grid = l.grid_obj1],
                  !.loc = [l EXCEPT !.raw2 = None, !.frame2 = Some(0)]]

\* lines 254-261: the sequence is exhausted.
Terminal(m) ==
    LET l == m.loc
        t == save(m.tobj)
        rec == update_scan_and_time(Val(t.record), Val(l.grid_obj1), None)
    IN  [m EXCEPT !.tobj = MutateRecord([t EXCEPT !.last_grid = l.grid_obj1], rec),
                  !.loc = [l EXCEPT !.raw2 = None, !.frame2 = Some(0)]]

\* lines 263-269: nothing in the previous frame.
EmptyFrame(m) ==
    [Notice(m, "No objects found in scan", Val(m.tobj.record).scan)
        EXCEPT !.loc.newRain = TRUE, !.tobj.current_objects = None]

\* lines 272-302: pairing, registry, rows.
TrackObjects(m) ==
    LET l == m.loc
        t == m.tobj
        rec == Val(t.record)
        pairs == get_pairs(Val(l.frame1), Val(l.frame2))
        Written(t2, l2) ==
            [m EXCEPT !.tobj = [t2 EXCEPT !.tracks =
                                   write_tracks(@, rec, Val(t2.current_objects))],
                      !.loc = [l2 EXCEPT !.obj_merge = Some(pairs), !.raw1 = None]]
    IN  IF l.newRain
        THEN IF rec.interval = None THEN Raise(m, "AttributeError")
             ELSE LET r == init_current_objects(Val(l.frame1), pairs, Val(t.counter))
                  IN  Written([MutateCounter(t, r.counter)
                                  EXCEPT !.current_objects = Some(r.objects)],
                              [l EXCEPT !.newRain = FALSE])
        ELSE IF l.obj_merge = None THEN Raise(m, "UnboundLocalError")
        ELSE IF rec.interval = None THEN Raise(m, "AttributeError")
        ELSE IF t.current_objects = None THEN Raise(m, "TypeError")
        ELSE LET r == update_current_objects(Val(l.frame1), pairs, Val(t.current_objects),
                                             Val(t.counter), l.acc_rain_list, l.rain)
             IN  Written([MutateCounter(t, r.counter)
                             EXCEPT !.current_objects = Some(r.objects)],
                         [l EXCEPT !.acc_rain_list = r.acc_rain_list])

\* Matching without the `continue` of line 269: an empty previous frame falls
\* through to flow estimation.
Matching_NoContinue(m) ==
    LET m0 == IF Val(m.loc.frame1) = 0 THEN EmptyFrame(m) ELSE m
        gs == get_global_shift(<<m.loc.raw1, m.loc.raw2, "params">>)
    IN  IF gs.exc # "none" THEN Raise(m0, gs.exc)
        ELSE LET m1 == TrackObjects(m0)
             IN  IF m1.pc = "idle" THEN m1 ELSE LoopHead(m1)

\* lines 263-302 and back to the loop test.
Matching(m) ==
    IF Val(m.loc.frame1) = 0 THEN LoopHead(EmptyFrame(m))
    ELSE LET gs == get_global_shift(<<m.loc.raw1, m.loc.raw2, "params">>)
         IN  IF gs.exc # "none" THEN Raise(m, gs.exc)
             ELSE LET m1 == TrackObjects(m)
                  IN  IF m1.pc = "idle" THEN m1 ELSE LoopHead(m1)

\* The pull with the strong-signal test on the previous scan left out: every
\* all-zero scan would be discarded.
PullGrid_SkipAnyZero(m, g) ==
    LET m1 == IF m.pc = "repull" THEN Notice(m, "Skipping erroneous grid", 0) ELSE m
        m2 == [m1 EXCEPT !.loc.grid_obj2 = Some(g)]
    IN  IF extract_grid_data(g).raw = 0
        THEN [m2 EXCEPT !.pc = "repull"]
        ELSE Matching(WithSuccessor(m2))

\* lines 221-231, one next(grids) that yields g, and the rest of the iteration
\* when g is not skipped.
PullGrid(m, g) ==
    LET m1 == IF m.pc = "repull" THEN Notice(m, "Skipping erroneous grid", 0) ELSE m
        m2 == [m1 EXCEPT !.loc.grid_obj2 = Some(g)]
    IN  IF Val(m.loc.raw1) > HighSignal /\ extract_grid_data(g).raw = 0
        THEN [m2 EXCEPT !.pc = "repull"]
        ELSE Matching(WithSuccessor(m2))

\* lines 232-233, next(grids) raises StopIteration, and the rest of the
\* iteration.
PullStop(m) == Matching(Terminal([m EXCEPT !.loc.grid_obj2 = None]))

\* lines 305-331: rainfall output, post-processing, restore.
PostProcess(m) ==
    LET l == m.loc
    IN  IF l.save_rain /\ np_stack(l.acc_rain_list) # "none" THEN Raise(m, "ValueError")
        ELSE IF l.grid_obj1 = None THEN Raise(m, "UnboundLocalError")
        ELSE [m EXCEPT !.tobj = load(get_system_tracks(post_tracks(m.tobj))),
                       !.pc = "idle"]

\* FirstCall with the Counter and the Record made before the first pull.
FirstCall_SetupBeforePull(m, first, rain, save_rain) ==
    LET l == [NoLocals EXCEPT !.rain = rain, !.save_rain = save_rain]
        t == [m.tobj EXCEPT !.counter = Some(NewCounter), !.record = Some(NewRecord)]
        m0 == [m EXCEPT !.tobj = t, !.loc = l, !.err = "none"]
    IN  IF first = None THEN Raise(m0, "StopIteration")
        ELSE LET x == extract_grid_data(Val(first))
             IN  LoopHead([m0 EXCEPT !.tobj.grid_size = Some(1),
                                     !.loc = [l EXCEPT !.grid_obj2 = first,
                                                       !.newRain = (t.current_objects = None),
                                                       !.raw2 = Some(x.raw),
                                                       !.frame2 = Some(x.frame)]])

\* lines 180-217 when self.record is None; first is what next(grids) of line
\* 186 gives: a grid, or None for StopIteration.
FirstCall(m, first, rain, save_rain) ==
    LET l == [NoLocals EXCEPT !.rain = rain, !.save_rain = save_rain]
        m0 == [m EXCEPT !.loc = l, !.err = "none"]
    IN  IF first = None THEN Raise(m0, "StopIteration")
        ELSE LET g == Val(first)
                 x == extract_grid_data(g)
                 t == [m.tobj EXCEPT !.grid_size = Some(1), !.counter = Some(NewCounter),
                                     !.record = Some(NewRecord)]
             IN  LoopHead([m0 EXCEPT !.tobj = t,
                                     !.loc = [l EXCEPT !.grid_obj2 = first,
                                                       !.newRain = (t.current_objects = None),
                                                       !.raw2 = Some(x.raw),
                                                       !.frame2 = Some(x.frame)]])

\* lines 180-217 when self.record is set.
ResumeCall(m, rain, save_rain) ==
    LET t == m.tobj
        l == [NoLocals EXCEPT !.rain = rain, !.save_rain = save_rain,
                              !.grid_obj2 = t.last_grid]
        m0 == [m EXCEPT !.loc = l, !.err = "none"]
        d == drop(t.tracks, Val(t.record).scan + 1)
    IN  IF d.exc # "none" THEN Raise(m0, d.exc)
        ELSE IF t.last_grid = None THEN Raise(m0, "AttributeError")
        ELSE LET x == extract_grid_data(Val(t.last_grid))
             IN  LoopHead([m0 EXCEPT !.loc = [l EXCEPT !.newRain = (t.current_objects = None),
                                                       !.raw2 = Some(x.raw),
                                                       !.frame2 = Some(x.frame)]])

\* ---------------------------------------------------------------- the system
\* flow: the phase-correlation call under study, its arguments and, once it
\* has been made, its result; NoFlow while get_tracks is studied.
NoFlow == [op |-> "none"]

\* calls: one entry per get_tracks call made so far: whether it found a record
\* on the instance (resume), the grids its iterator has yielded, its flags and
\* how it ended ("running" while it has not).
M == [tobj |-> tobj, loc |-> loc, pc |-> pc, err |-> err, log |-> log]

Becomes(m) ==
    /\ tobj' = m.tobj
    /\ loc' = m.loc
    /\ pc' = m.pc
    /\ err' = m.err
    /\ log' = m.log
    /\ flow' = flow

Outcome(m) == IF m.pc # "idle" THEN "running"
              ELSE IF m.err = "none" THEN "returned" ELSE m.err

RECURSIVE Flatten(_)
Flatten(ss) == IF ss = <<>> THEN <<>> ELSE Head(ss) \o Flatten(Tail(ss))

\* every grid the scan stream has produced, in order
AllPulled == Flatten([i \in DOMAIN calls |-> calls[i].pulled])

\* the stream is time-ordered: the grids a pull may yield now
NextGrids ==
    LET times == IF AllPulled = <<>> THEN {0}
                 ELSE {AllPulled[Len(AllPulled)].time + d : d \in Gaps}
    IN  {MkGrid(t, k) : t \in times, k \in GridKinds}

Init ==
    /\ tobj = NewTracks
    /\ loc = NoLocals
    /\ pc = "idle"
    /\ err = "none"
    /\ log = <<>>
    /\ calls = <<>>
    /\ flow = NoFlow

CallEntry(m, pulled, rain, save_rain) ==
    /\ Becomes(m)
    /\ calls' = Append(calls, [resume |-> (tobj.record # None),
                               pulled |-> pulled, rain |-> rain,
                               save_rain |-> save_rain, outcome |-> Outcome(m)])

\* get_tracks(grids, rain, save_rain) on an instance without a record, grids
\* yielding a first grid
CallFirst ==
    /\ pc = "idle"
    /\ Len(calls) < MaxCalls
    /\ tobj.record = None
    /\ \E g \in NextGrids, rain \in BOOLEAN, save_rain \in BOOLEAN :
          CallEntry(FirstCall(M, Some(g), rain, save_rain), <<g>>, rain, save_rain)

\* get_tracks on an instance without a record, grids being empty
CallFirstEmpty ==
    /\ pc = "idle"
    /\ Len(calls) < MaxCalls
    /\ tobj.record = None
    /\ \E rain \in BOOLEAN, save_rain \in BOOLEAN :
          CallEntry(FirstCall(M, None, rain, save_rain), <<>>, rain, save_rain)

\* get_tracks on an instance that has a record
CallResume ==
    /\ pc = "idle"
    /\ Len(calls) < MaxCalls
    /\ tobj.record # None
    /\ \E rain \in BOOLEAN, save_rain \in BOOLEAN :
          CallEntry(ResumeCall(M, rain, save_rain), <<>>, rain, save_rain)

Continues(m, pulled) ==
    /\ Becomes(m)
    /\ calls' = [calls EXCEPT ![Len(calls)] =
                    [@ EXCEPT !.pulled = @ \o pulled, !.outcome = Outcome(m)]]

\* next(grids) yields a grid
Pull ==
    /\ pc \in {"pull", "repull"}
    /\ Len(calls[Len(calls)].pulled) < MaxScans
    /\ \E g \in NextGrids : Continues(PullGrid(M, g), <<g>>)

\* next(grids) raises StopIteration
Exhausted ==
    /\ pc \in {"pull", "repull"}
    /\ Continues(PullStop(M), <<>>)

\* the code after the scan loop
Finish ==
    /\ pc = "post"
    /\ Continues(PostProcess(M), <<>>)

Next == CallFirst \/ CallFirstEmpty \/ CallResume \/ Pull \/ Exhausted \/ Finish

Spec == Init /\ [][Next]_vars

\* One complete get_tracks call on a new instance whose iterator yields
\* exactly the grids gs.
RECURSIVE Feed(_, _)
Feed(m, gs) ==
    IF m.pc \notin {"pull", "repull"} THEN m
    ELSE IF gs = <<>> THEN PullStop(m)
    ELSE Feed(PullGrid(m, Head(gs)), Tail(gs))

RunSingle(gs, rain, save_rain) ==
    LET m0 == [tobj |-> NewTracks, loc |-> NoLocals, pc |-> "idle", err |-> "none",
               log |-> <<>>]
        m1 == IF gs = <<>> THEN FirstCall(m0, None, rain, save_rain)
              ELSE Feed(FirstCall(m0, Some(Head(gs)), rain, save_rain), Tail(gs))
    IN  IF m1.pc = "post" THEN PostProcess(m1) ELSE m1

\* ------------------------------------------------ phase correlation, alone
\* Samples of a field: nothing, weak signal, strong signal.
Fields(r, c, levels) ==
    {Arr(r, c, f) : f \in [Ix(r) \X Ix(c) -> levels]}

\* surfaces of every shape up to MaxDim with entries that tell their origin,
\* and every pivot 0 <= rd <= rows, 0 <= cd <= cols
SurfaceInputs ==
    UNION {{[fft_mat |-> Arr(r, c, [i \in Ix(r), j \in Ix(c) |-> i * c + j]),
             rd |-> rd, cd |-> cd] :
               rd \in 0..r, cd \in 0..c} : r \in 1..MaxDim, c \in 1..MaxDim}

\* two fields of one shape, or a field and no second field
FieldInputs ==
    UNION {{[im1 |-> A, im2 |-> B] :
               A \in Fields(r, c, RawLevels),
               B \in {Some(F) : F \in Fields(r, c, RawLevels)} \cup {None}} :
           r \in ExactDims, c \in ExactDims}

\* an object extent with its centre inside the fields, a radius and a margin
\* (FLOW_MARGIN over the grid spacing) of zero or more
ExtentInputs ==
    UNION {{[obj_extent |-> [obj_center |-> <<cr, cc>>, obj_radius |-> rad],
             img1 |-> A, img2 |-> B,
             params |-> [FLOW_MARGIN |-> fm], grid_size |-> <<1, dy, dx>>] :
               A \in Fields(r, c, {0, 50}), B \in Fields(r, c, {0, 50}),
               cr \in 0..(r - 1), cc \in 0..(c - 1), rad \in 0..1,
               fm \in {0, 1, 3}, dy \in {1, 2}, dx \in {2}} :
           r \in ExactDims, c \in ExactDims}

\* covariance surfaces of every shape up to MaxDim whose maximum is at one
\* index or at two
PeakInputs ==
    UNION {{[crosscov |-> Arr(r, c, [i \in Ix(r), j \in Ix(c) |->
                                        IF <<i, j>> \in {p, q} THEN 1 ELSE 0])] :
               p \in Ix(r) \X Ix(c), q \in Ix(r) \X Ix(c)} :
           r \in 1..MaxDim, c \in 1..MaxDim}

FlowInit ==
    /\ tobj = NewTracks
    /\ loc = NoLocals
    /\ pc = "idle"
    /\ err = "none"
    /\ log = <<>>
    /\ calls = <<>>
    /\ flow \in {[op |-> "input", kind |-> "surface", args |-> a] : a \in SurfaceInputs}
               \cup {[op |-> "input", kind |-> "fields", args |-> a] : a \in FieldInputs}
               \cup {[op |-> "input", kind |-> "extent", args |-> a] : a \in ExtentInputs}
               \cup {[op |-> "input", kind |-> "peaks", args |-> a] : a \in PeakInputs}

Called(op, result) ==
    /\ flow' = [op |-> op, args |-> flow.args, result |-> result]
    /\ UNCHANGED <<tobj, loc, pc, err, log, calls>>

\* fft_shift(fft_mat, rd, cd)
FftShift ==
    /\ flow.op = "input"
    /\ flow.kind = "surface"
    /\ Called("fft_shift", fft_shift(flow.args.fft_mat, flow.args.rd, flow.args.cd))

\* get_global_shift(im1, im2)
GlobalShift ==
    /\ flow.op = "input"
    /\ flow.kind = "fields"
    /\ \E dbg \in Debugger :
          Called("get_global_shift", global_shift_of(flow.args.im1, flow.args.im2, dbg))

\* get_ambient_flow(obj_extent, img1, img2, params, grid_size)
AmbientFlow ==
    /\ flow.op = "input"
    /\ flow.kind = "extent"
    /\ \E dbg \in Debugger :
          Called("get_ambient_flow",
                 get_ambient_flow(flow.args.obj_extent, flow.args.img1, flow.args.img2,
                                  flow.args.params, flow.args.grid_size, dbg))

\* the swap and the peak extraction of fft_flowvectors on a covariance surface
ExtractPeak ==
    /\ flow.op = "input"
    /\ flow.kind = "peaks"
    /\ Called("peak_shift", swapped_peak_shift(flow.args.crosscov))

FlowNext == FftShift \/ GlobalShift \/ AmbientFlow \/ ExtractPeak

FlowSpec == FlowInit /\ [][FlowNext]_vars

\* ------------------------------------------------------------------- claims
LastCall == calls[Len(calls)]

\* a step in which the scan loop processes one more previous scan (the Record
\* moves to the next scan index)
IterationRuns ==
    /\ pc \in {"pull", "repull"}
    /\ Val(tobj'.record).scan = Val(tobj.record).scan + 1

\* ... and that scan has a successor grid
IterationWithSuccessor == IterationRuns /\ LastCall'.pulled # LastCall.pulled

\* the lines the step prints
Printed == SubSeq(log', Len(log) + 1, Len(log'))

PrintedMsg(msg) == \E i \in DOMAIN Printed : Printed[i].msg = msg

\* C1: a call on S1..Sn followed by a call on Sn+1..Sm of the same instance,
\* no time gap between Sn and Sn+1, ends like one call on S1..Sm of a new
\* instance and leaves the same table.  A second call that raised before its
\* first pull is compared for every one-grid continuation of the stream.
NoGapContinuations ==
    IF LastCall.pulled # <<>> THEN {LastCall.pulled}
    ELSE {<<MkGrid(AllPulled[Len(AllPulled)].time + GapSeconds, k)>> : k \in GridKinds}

ResumptionEquivalence ==
    (Len(calls) = 2 /\ pc = "idle" /\ calls[1].outcome = "returned" /\ calls[2].resume)
    => \A B \in NoGapContinuations :
          LET one == RunSingle(calls[1].pulled \o B, calls[2].rain, calls[2].save_rain)
          IN  one.err = "none"
              => calls[2].outcome = "returned" /\ tobj.tracks = one.tobj.tracks

\* C2: a resuming call gets past its discard step, and when it reaches its
\* first pull the table holds no row of the earlier call's terminal scan index
\* (checkpointed record.scan + 1).
TerminalRowsDiscarded ==
    (calls # <<>> /\ LastCall.resume)
    => /\ LastCall.outcome # "KeyError"
       /\ (pc = "pull" /\ LastCall.pulled = <<>>)
             => \A r \in tobj.tracks : r.scan # Val(tobj.record).scan + 1

\* C3: a first call whose iterator yields nothing ends at once with
\* StopIteration, never enters the loop and leaves the instance as constructed.
EmptySequenceIsFatal ==
    (calls # <<>> /\ ~LastCall.resume /\ LastCall.pulled = <<>>)
    => /\ LastCall.outcome = "StopIteration"
       /\ pc = "idle"
       /\ tobj = NewTracks
       /\ log = <<>>

EmptySequenceSeen ==
    calls # <<>> /\ ~LastCall.resume /\ LastCall.pulled = <<>> /\ err = "StopIteration"

\* C4: a first call on a non-empty sequence never ends with an exception.
NonEmptyFirstCallSucceeds ==
    \A c \in DOMAIN calls :
        (~calls[c].resume /\ calls[c].pulled # <<>>)
        => calls[c].outcome \in {"running", "returned"}

\* C5: a call on an instance populated by a completed call never ends with an
\* exception.
ResumedCallSucceeds ==
    \A c \in DOMAIN calls :
        (c > 1 /\ calls[c].resume /\ calls[c - 1].outcome = "returned")
        => calls[c].outcome \in {"running", "returned"}

\* C6: an iteration with a successor scan clears the registry, marks a new
\* object set and reports the discontinuity exactly when the two timestamps
\* differ by more than 1700 seconds in total.
GapClearsRegistry ==
    [][IterationWithSuccessor
       => ((total_seconds(Val(Val(tobj'.record).interval)) > GapSeconds)
           <=> (/\ PrintedMsg("Time discontinuity")
                /\ tobj'.current_objects = None
                /\ loc'.newRain))]_vars

\* C8: an iteration whose previous frame is empty clears the registry, marks a
\* new object set, reports the scan, appends no row, mints no uid and goes on
\* to the loop test without an exception; and no row of the table carries a
\* scan index reported as empty.
EmptyFrameSkipped ==
    /\ [](\A r \in tobj.tracks : \A i \in DOMAIN log :
             ~(log[i].msg = "No objects found in scan" /\ log[i].n = r.scan))
    /\ [][(IterationRuns /\ loc.frame1 = Some(0))
          => /\ tobj'.tracks = tobj.tracks
             /\ tobj'.current_objects = None
             /\ tobj'.counter = tobj.counter
             /\ loc'.newRain
             /\ loc'.obj_merge = loc.obj_merge
             /\ err' = "none"
             /\ pc' \in {"pull", "post"}
             /\ Printed # <<>>
             /\ \A i \in DOMAIN Printed :
                   (Printed[i].msg = "No objects found in scan")
                   <=> (i = Len(Printed) /\ Printed[i].n = Val(tobj'.record).scan)]_vars

EmptyFrameSeen ==
    /\ pc \in {"pull", "post"}
    /\ log # <<>>
    /\ log[Len(log)] = [msg |-> "No objects found in scan", n |-> Val(tobj.record).scan]

\* C9: the iteration that follows an empty-frame iteration and has a nonempty
\* previous frame initializes the registry with uids minted now, one per
\* object.
FreshUidsAfterEmptyFrame ==
    [][(/\ IterationRuns
        /\ Val(loc.frame1) > 0
        /\ log # <<>>
        /\ log[Len(log)] = [msg |-> "No objects found in scan",
                            n |-> Val(tobj.record).scan])
       => /\ tobj'.current_objects # None
          /\ Val(tobj'.counter) = Val(tobj.counter) + Val(loc.frame1)
          /\ LET uid == Val(tobj'.current_objects).uid
             IN  {uid[i] : i \in DOMAIN uid}
                    = (Val(tobj.counter) + 1)..(Val(tobj.counter) + Val(loc.frame1))]_vars

\* the stored checkpoint and the live values it is a snapshot of
Checkpoint(t) == <<t.saved_record, t.saved_counter, t.saved_objects>>

LiveState(t) == <<t.record, t.counter, t.current_objects>>

\* a step in which next(grids) finds the sequence exhausted
ExhaustionFound == pc \in {"pull", "repull"} /\ LastCall'.pulled = LastCall.pulled

\* C11: the checkpoint is written only by the step that finds the sequence
\* exhausted (from the plain pull or from inside the artifact-skip loop); it
\* then holds the live values of before the Record moves to the terminal scan,
\* and the loop never pulls again in that call.  Every other step, iterations
\* with a successor included, leaves the checkpoint as it was.
CheckpointOnlyAtExhaustion ==
    [][IF ExhaustionFound
       THEN /\ Checkpoint(tobj') = LiveState(tobj)
            /\ Val(tobj'.record).scan = Val(tobj.record).scan + 1
            /\ tobj'.last_grid = loc.grid_obj1
            /\ pc' \in {"post", "idle"}
       ELSE Checkpoint(tobj') = Checkpoint(tobj)]_vars

\* the loop has ended through exhaustion found inside the artifact-skip loop,
\* after at least one iteration with a successor
CheckpointTaken ==
    /\ pc = "post"
    /\ tobj.saved_record # None
    /\ Val(tobj.saved_record).scan >= 0
    /\ Val(tobj.record).scan = Val(tobj.saved_record).scan + 1
    /\ log # <<>>
    /\ loc.grid_obj1 # LastCall.pulled[Len(LastCall.pulled)]

\* C12: a call that took the checkpoint and left the scan loop ends by
\* returning with the live Record, Counter and Registry equal to the
\* checkpoint, whatever rain and save_rain are.
CheckpointRestored ==
    [][pc = "post"
       => /\ pc' = "idle"
          /\ err' = "none"
          /\ LiveState(tobj') = Checkpoint(tobj)]_vars

\* C13: the stored checkpoint shares nothing with the live state: an in-place
\* change of the live Record or Counter leaves the checkpoint as it was.
CheckpointNeverAliased ==
    (tobj.record # None /\ tobj.counter # None)
    => /\ Checkpoint(MutateRecord(tobj, [Val(tobj.record) EXCEPT !.scan = @ + 1]))
             = Checkpoint(tobj)
       /\ Checkpoint(MutateCounter(tobj, next_uid(Val(tobj.counter), 1).counter))
             = Checkpoint(tobj)

\* a step in which next(grids) yields a grid
GridPulled == pc \in {"pull", "repull"} /\ LastCall'.pulled # LastCall.pulled

\* C14: a pulled scan whose raw field is all zero while the previous scan's
\* maximum exceeds 30 is discarded and the loop pulls again: it gets no scan
\* index, does not become the previous scan or last_grid and adds no row.  Any
\* other pulled scan, an all-zero one after a previous maximum of at most 30
\* included, is processed as the successor: the Record moves on, and the scan
\* is the previous scan of the next iteration.  Exhaustion found while
\* skipping makes the scan before the discarded ones last_grid.
ArtifactSkipped ==
    [][/\ GridPulled
          => LET g == LastCall'.pulled[Len(LastCall'.pulled)]
             IN  IF Val(loc.raw1) > HighSignal /\ extract_grid_data(g).raw = 0
                 THEN /\ pc' = "repull"
                      /\ err' = "none"
                      /\ tobj' = tobj
                      /\ loc' = [loc EXCEPT !.grid_obj2 = Some(g)]
                 ELSE /\ Val(tobj'.record).scan = Val(tobj.record).scan + 1
                      /\ Val(tobj'.record).time = Some(Val(loc.grid_obj1).time)
                      /\ pc' \in {"pull", "idle"}
                      /\ pc' = "pull" => loc'.grid_obj1 = Some(g)
       /\ (ExhaustionFound /\ pc = "repull")
          => /\ tobj'.last_grid = loc.grid_obj1
             /\ tobj'.last_grid # loc.grid_obj2
             /\ tobj'.tracks = tobj.tracks]_vars

\* a scan was discarded and the scan pulled after it is now the previous scan
ArtifactSkipSeen ==
    /\ pc = "pull"
    /\ \E i \in DOMAIN log : log[i].msg = "Skipping erroneous grid"
    /\ Len(LastCall.pulled) >= 3
    /\ LastCall.pulled[Len(LastCall.pulled) - 1].rawmax = 0
    /\ loc.grid_obj1 = Some(LastCall.pulled[Len(LastCall.pulled)])
    /\ Val(tobj.record).scan = 0

\* C15: a first call on (scan 0: one object of intensity 50, scan 1: the same,
\* scan 2: all zero) returns with rows for scans 0 and 1 under one uid and no
\* row for scan 2.
ThreeScanScenario ==
    LET c == calls[1]
        IsObject(g) == g.rawmax = 50 /\ g.nobj = 1
    IN  (/\ calls # <<>>
         /\ ~c.resume
         /\ c.outcome # "running"
         /\ Len(c.pulled) >= 2
         /\ IsObject(c.pulled[1])
         /\ IsObject(c.pulled[2])
         /\ Len(c.pulled) = 3 => c.pulled[3].rawmax = 0)
        => /\ c.outcome = "returned"
           /\ \E u \in 1..MaxScans :
                 tobj.tracks = {[scan |-> 0, uid |-> u], [scan |-> 1, uid |-> u]}

\* C16: the window get_ambient_flow cuts out lies inside the field: after
\* clipping, the lower bounds are at least 0 and the upper bounds, with the +1
\* of the slice, are at most the field's extent, rows and columns alike.
FlowWindowInField ==
    flow.op = "get_ambient_flow"
    => LET a == flow.args
           b == flow_region_bounds(a.obj_extent, <<a.img1.rows, a.img1.cols>>,
                                   a.params, a.grid_size)
       IN  /\ b.row_lb >= 0
           /\ b.col_lb >= 0
           /\ b.row_ub + 1 <= a.img1.rows
           /\ b.col_ub + 1 <= a.img1.cols

\* the binarized windows get_ambient_flow hands to fft_flowvectors
FlowRegions ==
    LET a == flow.args
        b == flow_region_bounds(a.obj_extent, <<a.img1.rows, a.img1.cols>>,
                                a.params, a.grid_size)
    IN  <<Binarize(Slice(a.img1, b.row_lb, b.row_ub + 1, b.col_lb, b.col_ub + 1)),
          Binarize(Slice(a.img2, b.row_lb, b.row_ub + 1, b.col_lb, b.col_ub + 1))>>

\* C17: get_global_shift never raises, and returns None exactly when there is
\* no second field (a shift otherwise, all-zero fields included);
\* get_ambient_flow never raises, and returns None exactly when one of the
\* binarized windows has no nonzero sample.
FlowNeverRaises ==
    /\ flow.op = "get_global_shift"
          => /\ flow.result.exc = "none"
             /\ (flow.result.value = None) <=> (flow.args.im2 = None)
    /\ flow.op = "get_ambient_flow"
          => /\ flow.result.exc = "none"
             /\ (flow.result.value = None)
                    <=> (Entries(FlowRegions[1]) = {0} \/ Entries(FlowRegions[2]) = {0})

\* the surface fft_shift returned has the shape of its argument and the same
\* entries, each once
ShiftPermutes ==
    /\ flow.result.rows = flow.args.fft_mat.rows
    /\ flow.result.cols = flow.args.fft_mat.cols
    /\ Entries(flow.result) = Entries(flow.args.fft_mat)

\* C18 as stated: fft_shift returns a permutation of its argument of the same
\* shape in which the entry that was at (0, 0) sits at the pivot (rd, cd).
OriginAtPivot ==
    flow.op = "fft_shift"
    => /\ ShiftPermutes
       /\ <<flow.args.rd, flow.args.cd>> \in DOMAIN flow.result.at
       /\ flow.result.at[<<flow.args.rd, flow.args.cd>>] = flow.args.fft_mat.at[<<0, 0>>]

\* C18: fft_shift returns a permutation of its argument of the same shape in
\* which the entry that was at (0, 0) sits at (rows - rd, cols - cd), taken
\* modulo the shape: the pivot itself only where rd = rows - rd and
\* cd = cols - cd, and row 0 for rd = 0 or rd = rows.
OriginOppositePivot ==
    flow.op = "fft_shift"
    => LET A == flow.args.fft_mat
       IN  /\ ShiftPermutes
           /\ flow.result.at[<<(A.rows - flow.args.rd) % A.rows,
                               (A.cols - flow.args.cd) % A.cols>>] = A.at[<<0, 0>>]

\* a surface with an odd number of rows shifted about the pivot
\* fft_flowvectors uses, ceil(dims / 2)
OddShapeShifted ==
    /\ flow.op = "fft_shift"
    /\ flow.args.fft_mat.rows = 3
    /\ flow.args.fft_mat.cols = 2
    /\ flow.args.rd = 2
    /\ flow.args.cd = 1
    /\ flow.result.at[<<1, 1>>] = flow.args.fft_mat.at[<<0, 0>>]

\* B is A moved circularly by (dr, dc)
IsShifted(A, B, dr, dc) ==
    \A p \in DOMAIN A.at :
        B.at[<<(p[1] + dr) % A.rows, (p[2] + dc) % A.cols>>] = A.at[p]

\* a footprint of one sample
Compact(A) == Cardinality({p \in DOMAIN A.at : A.at[p] # 0}) = 1

\* C19: for a field with a compact footprint and its copy moved circularly by
\* (dr, dc), |dr| < rows / 2 and |dc| < cols / 2, the estimate is (dr, dc).
ShiftRecovered ==
    (flow.op = "get_global_shift" /\ flow.args.im2 # None /\ Compact(flow.args.im1))
    => LET A == flow.args.im1
           B == Val(flow.args.im2)
       IN  \A dr \in (-A.rows)..A.rows, dc \in (-A.cols)..A.cols :
               (/\ 2 * Abs(dr) < A.rows
                /\ 2 * Abs(dc) < A.cols
                /\ IsShifted(A, B, dr, dc))
               => flow.result = [exc |-> "none", value |-> Some(<<dr, dc>>)]

\* C20: get_global_shift(F, F) is (0, 0) for every field F with a nonzero
\* sample.
SelfShiftIsZero ==
    (/\ flow.op = "get_global_shift"
     /\ flow.args.im2 = Some(flow.args.im1)
     /\ Entries(flow.args.im1) # {0})
    => flow.result = [exc |-> "none", value |-> Some(<<0, 0>>)]

\* the scans of a call's pulls that the artifact test of line 226 lets through,
\* prev being the scan before them
RECURSIVE Kept(_, _)
Kept(prev, gs) ==
    IF gs = <<>> THEN <<>>
    ELSE IF prev.rawmax > HighSignal /\ Head(gs).rawmax = 0 THEN Kept(prev, Tail(gs))
    ELSE <<Head(gs)>> \o Kept(Head(gs), Tail(gs))

\* the scans a first call has pulled and not discarded
Processed(pulled) ==
    IF pulled = <<>> THEN <<>> ELSE <<Head(pulled)>> \o Kept(Head(pulled), Tail(pulled))

\* a step in which next(grids) yields a scan that is not discarded
ScanKept ==
    /\ GridPulled
    /\ ~(/\ Val(loc.raw1) > HighSignal
         /\ LastCall'.pulled[Len(LastCall'.pulled)].rawmax = 0)

\* C21: every loop iteration updates the Record exactly once: with the
\* previous and the current grid when a scan was pulled and kept, with the
\* previous grid alone when the sequence was found exhausted, whether or not
\* the iteration is then cut short; a pull that discards a scan leaves the
\* Record alone.  So while a first call is in its loop the scan index counts
\* the kept scans already processed as previous scan, and no row carries an
\* index beyond it.
RecordUpdatedOncePerIteration ==
    /\ []((calls # <<>> /\ ~LastCall.resume /\ pc \in {"pull", "repull", "post"})
            => /\ Val(tobj.record).scan
                    = Len(Processed(LastCall.pulled)) - (IF pc = "post" THEN 1 ELSE 2)
               /\ \A r \in tobj.tracks : r.scan \in 0..Val(tobj.record).scan)
    /\ [][(pc \in {"pull", "repull"})
          => tobj'.record =
                (IF ScanKept
                 THEN Some(update_scan_and_time(Val(tobj.record), Val(loc.grid_obj1),
                               Some(LastCall'.pulled[Len(LastCall'.pulled)])))
                 ELSE IF ExhaustionFound
                 THEN Some(update_scan_and_time(Val(tobj.record), Val(loc.grid_obj1), None))
                 ELSE tobj.record)]_vars

\* three iterations done, the last one terminal and cut short by the
\* empty-frame skip
RecordAdvanced ==
    /\ pc = "post"
    /\ Val(tobj.record).scan = 2
    /\ Val(tobj.record).interval # None
    /\ log # <<>>
    /\ log[Len(log)] = [msg |-> "No objects found in scan", n |-> 2]

\* C22: at every loop head the fresh-object-set flag is true exactly when the
\* registry is absent, and an iteration with a nonempty previous frame leaves
\* a registry behind with the flag false: initialized with uids minted now
\* when the registry was absent or a gap was found, updated otherwise.
RegistryFollowsFlag ==
    /\ []((pc \in {"pull", "repull"}) => (loc.newRain <=> tobj.current_objects = None))
    /\ [][(IterationRuns /\ Val(loc.frame1) > 0)
          => /\ tobj'.current_objects # None
             /\ ~loc'.newRain
             /\ (tobj.current_objects = None \/ PrintedMsg("Time discontinuity"))
                   => LET uid == Val(tobj'.current_objects).uid
                      IN  \A i \in DOMAIN uid : uid[i] > Val(tobj.counter)]_vars

\* C23: the products the loop holds are those of the previous scan (and,
\* within an iteration, of the scan just pulled): between iterations the raw
\* field and the frame under both pairs of names are the previous scan's, the
\* frame kept from before it is a placeholder, and after the loop the second
\* pair holds the terminal placeholders.
ProductsOfTwoScans ==
    (pc \in {"pull", "repull", "post"})
    => LET prev == extract_grid_data(Val(loc.grid_obj1))
       IN  /\ loc.raw1 = Some(prev.raw)
           /\ loc.frame1 = Some(prev.frame)
           /\ loc.frame0 = Some(NaN)
           /\ IF pc = "post"
              THEN loc.raw2 = None /\ loc.frame2 = Some(0)
              ELSE loc.raw2 = Some(prev.raw) /\ loc.frame2 = Some(prev.frame)

\* the third scan is the previous scan and nothing of the first is held
OlderScanReleased ==
    /\ pc = "pull"
    /\ Len(LastCall.pulled) = 3
    /\ Val(tobj.record).scan = 1
    /\ LastCall.pulled[1].rawmax = 20
    /\ LastCall.pulled[2].rawmax = 0
    /\ loc.raw1 = Some(50)

\* C24: the loop of a call is left only by the iteration that found the
\* sequence exhausted, which is its last one, and by then it has run one
\* iteration for each scan that was pulled and not discarded.
LoopRunsToExhaustion ==
    [][(pc \in {"pull", "repull"} /\ pc' \notin {"pull", "repull"})
       => /\ ExhaustionFound
          /\ pc' = "post"
          /\ err' = "none"
          /\ Val(tobj'.record).scan + 1 = Len(Processed(LastCall'.pulled))]_vars

\* the signed shift an index i of an axis of length n stands for, in
\* -floor(n / 2) .. ceil(n / 2) - 1
Signed(i, n) == IF i < (n + 1) \div 2 THEN i ELSE i - n

ScanIndexContinues ==
    /\ []((calls # <<>> /\ ~LastCall.resume /\ LastCall.outcome = "returned")
            => LET kept == Processed(LastCall.pulled)
               IN  tobj.last_grid = Some(kept[Len(kept)]))
    /\ [][(/\ pc = "idle"
           /\ calls # <<>>
           /\ LastCall.outcome = "returned"
           /\ Len(calls') = Len(calls) + 1)
          => /\ pc' = "pull"
             /\ loc'.grid_obj1 = tobj.last_grid
             /\ tobj'.record = tobj.saved_record
             /\ Val(tobj'.record).scan + 1 = Len(Processed(LastCall.pulled)) - 1]_vars

\* C27: an iteration that reports a time gap between its previous scan k and
\* the scan pulled, both with objects, registers scan k's objects afresh:
\* the registry it leaves holds one uid minted in this iteration per object,
\* paired against the pulled scan's frame, scan k's rows carry those uids, and
\* the flag is false at the next loop head, so that the next iteration updates
\* that registry.
GapIterationReinitializes ==
    [][(/\ IterationWithSuccessor
        /\ PrintedMsg("Time discontinuity")
        /\ Val(loc.frame1) > 0
        /\ LastCall'.pulled[Len(LastCall'.pulled)].nobj > 0)
       => /\ pc' = "pull"
          /\ ~loc'.newRain
          /\ tobj'.current_objects # None
          /\ LET reg == Val(tobj'.current_objects)
             IN  /\ Len(reg.uid) = Val(loc.frame1)
                 /\ reg.id2 = get_pairs(Val(loc.frame1),
                                         LastCall'.pulled[Len(LastCall'.pulled)].nobj)
                 /\ \A i \in DOMAIN reg.uid :
                        /\ reg.uid[i] > Val(tobj.counter)
                        /\ [scan |-> Val(tobj'.record).scan, uid |-> reg.uid[i]]
                              \in tobj'.tracks]_vars

====
